---- MODULE Spec2Model ----
(***************************************************************************)
(* The hotel dashboard of src/app.py as a state machine.                   *)
(*                                                                         *)
(* app.py is a Streamlit script: it runs top to bottom once when the page  *)
(* opens and again, in full, after every widget interaction.  One run      *)
(* reads cleaned_hotels.csv, reads the five sidebar widgets, filters the   *)
(* table and computes the KPIs, the monthly series, the top countries, the *)
(* preview and the export.  The state below is the file, the widget values *)
(* (which Streamlit keeps between runs) and what the last run computed.    *)
(*                                                                         *)
(* A calendar date is the integer yyyymmdd, so that the order of the       *)
(* integers is the order of the dates and the year-month of a date is the  *)
(* integer yyyymm.                                                         *)
(***************************************************************************)
EXTENDS Integers, Sequences, FiniteSets

VARIABLES
    cleaned_hotels,     \* the rows of cleaned_hotels.csv
    df,                 \* the loaded table (app.py:14-16)
    start_date,         \* date_range[0] (app.py:24-25)
    end_date,           \* date_range[1] (app.py:24-25)
    hotel_type,         \* the hotel multiselect (app.py:28)
    status,             \* the booking status multiselect (app.py:29)
    customer_type,      \* the customer type multiselect (app.py:30)
    filtered_df,        \* app.py:33-39
    total_bookings,     \* the "Total Bookings" metric (app.py:51)
    cancellation_rate,  \* the "Cancellation Rate" metric (app.py:52)
    monthly,            \* app.py:60-61
    top_countries,      \* app.py:81
    preview,            \* filtered_df.head(50) (app.py:118)
    csv                 \* filtered_df.to_csv(index=False) (app.py:119)

vars == <<cleaned_hotels, df, start_date, end_date, hotel_type, status,
          customer_type, filtered_df, total_bookings, cancellation_rate,
          monthly, top_countries, preview, csv>>

---------------------------------------------------------------------------
(* Bounds of the model. *)

\* The longest small file, in rows.
MaxRows == 2

\* The number of distinct countries in a large file.
NumCountries == 11

---------------------------------------------------------------------------
(* Program constants. *)

\* nlargest(10)
TopN == 10

\* head(50)
PreviewRows == 50

---------------------------------------------------------------------------
(* The input file. *)

\* Arrival dates as written in the file: <<year, month, day>>.
FileDates == << <<2016, 12, 31>>, <<2017, 1, 1>>, <<2017, 1, 31>> >>

FileRow(d, h, s, c, k, r, a) ==
    [arrival_date |-> d, hotel |-> h, is_canceled |-> s, customer_type |-> c,
     country |-> k, reserved_room_type |-> r, assigned_room_type |-> a]

\* Rows a small file is made of: every column takes two or more values, and
\* every pair of hotel, status and customer type values occurs.
SampleRows ==
    { FileRow(FileDates[1], "Resort Hotel", "Canceled",     "Transient", "PRT", "A", "A"),
      FileRow(FileDates[2], "Resort Hotel", "Not Canceled", "Contract",  "ESP", "A", "D"),
      FileRow(FileDates[3], "City Hotel",   "Canceled",     "Contract",  "ESP", "D", "D"),
      FileRow(FileDates[2], "City Hotel",   "Not Canceled", "Transient", "PRT", "A", "A"),
      FileRow(FileDates[3], "Resort Hotel", "Canceled",     "Contract",  "PRT", "A", "D"),
      FileRow(FileDates[1], "City Hotel",   "Canceled",     "Transient", "ESP", "D", "A") }

SeqsUpTo(S, lo, hi) == UNION { [1..n -> S] : n \in lo..hi }

SmallFiles == SeqsUpTo(SampleRows, 1, MaxRows)

\* The country codes of a large file; the first two are the sample's.
CountryCodes ==
    <<"PRT", "ESP", "GBR", "FRA", "DEU", "ITA", "IRL", "BEL", "BRA", "NLD",
      "USA", "CHE", "AUT", "SWE">>

CountryCode(k) == CountryCodes[k]

\* k canceled City Hotel bookings from country k.
RECURSIVE Block(_, _)
Block(k, n) ==
    IF n = 0 THEN << >>
    ELSE <<FileRow(FileDates[(k % Len(FileDates)) + 1], "City Hotel", "Canceled", "Transient",
                   CountryCode(k), "A", "A")>> \o Block(k, n - 1)

\* Country 1 once, country 2 twice, ..., country n n times: the countries
\* occur first in the order opposite to their counts.
RECURSIVE Triangle(_)
Triangle(n) == IF n = 0 THEN << >> ELSE Triangle(n - 1) \o Block(n, n)

\* A large file: the block of canceled bookings alone, or followed by one
\* sample row.
LargeFiles ==
    { Triangle(NumCountries) } \cup
    { Triangle(NumCountries) \o <<r>> : r \in SampleRows }

Files == SmallFiles \cup LargeFiles

---------------------------------------------------------------------------
(* Load Data (app.py:14-16). *)

\* pd.to_datetime of one cell.
ToDatetime(t) == t[1] * 10000 + t[2] * 100 + t[3]

\* The table read_csv returns, with its RangeIndex, the parsed arrival date
\* and the derived room_mismatch column.
LoadData(file) ==
    [i \in 1..Len(file) |->
        [index              |-> i - 1,
         arrival_date       |-> ToDatetime(file[i].arrival_date),
         hotel              |-> file[i].hotel,
         is_canceled        |-> file[i].is_canceled,
         customer_type      |-> file[i].customer_type,
         country            |-> file[i].country,
         reserved_room_type |-> file[i].reserved_room_type,
         assigned_room_type |-> file[i].assigned_room_type,
         room_mismatch      |-> file[i].reserved_room_type # file[i].assigned_room_type]]

---------------------------------------------------------------------------
(* Sidebar Filters (app.py:23-30). *)

\* df[col].unique(), as a set.
Unique(d, col) == { d[i][col] : i \in DOMAIN d }

\* df["arrival_date"].min()
MinDate(d) ==
    CHOOSE x \in Unique(d, "arrival_date") :
        \A y \in Unique(d, "arrival_date") : x <= y

\* df["arrival_date"].max()
MaxDate(d) ==
    CHOOSE x \in Unique(d, "arrival_date") :
        \A y \in Unique(d, "arrival_date") : x >= y

\* The dates the date picker can deliver.
PickableDates == { ToDatetime(FileDates[i]) : i \in DOMAIN FileDates }

---------------------------------------------------------------------------
(* Filter Data (app.py:33-39). *)

\* The elements of a set of integers in ascending order (the sorted group
\* keys of a groupby).
RECURSIVE Ascending(_)
Ascending(S) ==
    IF S = {} THEN << >>
    ELSE LET m == CHOOSE x \in S : \A y \in S : x <= y
         IN  <<m>> \o Ascending(S \ {m})

\* Mask with the end date left out of the range.
MaskExclusiveEnd(r, s, e, h, st, c) ==
    /\ r.arrival_date >= s
    /\ r.arrival_date < e
    /\ r.hotel \in h
    /\ r.is_canceled \in st
    /\ r.customer_type \in c

\* Mask with the start date left out of the range.
MaskExclusiveStart(r, s, e, h, st, c) ==
    /\ r.arrival_date > s
    /\ r.arrival_date <= e
    /\ r.hotel \in h
    /\ r.is_canceled \in st
    /\ r.customer_type \in c

\* Mask with reversed dates put in order.
MaskSwapsDates(r, s, e, h, st, c) ==
    /\ r.arrival_date >= (IF s <= e THEN s ELSE e)
    /\ r.arrival_date <= (IF s <= e THEN e ELSE s)
    /\ r.hotel \in h
    /\ r.is_canceled \in st
    /\ r.customer_type \in c

\* Mask with an empty selection read as no filter.
MaskEmptyIsAll(r, s, e, h, st, c) ==
    /\ r.arrival_date >= s
    /\ r.arrival_date <= e
    /\ (h = {} \/ r.hotel \in h)
    /\ (st = {} \/ r.is_canceled \in st)
    /\ (c = {} \/ r.customer_type \in c)

\* The boolean mask of one row.
Mask(r, s, e, h, st, c) ==
    /\ r.arrival_date >= s
    /\ r.arrival_date <= e
    /\ r.hotel \in h
    /\ r.is_canceled \in st
    /\ r.customer_type \in c

\* FilterData followed by sort_values("arrival_date").
FilterDataSortedByDate(d, s, e, h, st, c) ==
    LET v == SelectSeq(d, LAMBDA r : r.arrival_date >= s /\ r.arrival_date <= e
                                     /\ r.hotel \in h /\ r.is_canceled \in st
                                     /\ r.customer_type \in c)
        days == Ascending({ v[i].arrival_date : i \in DOMAIN v })
        RECURSIVE Flatten(_)
        Flatten(j) ==
            IF j > Len(days) THEN << >>
            ELSE SelectSeq(v, LAMBDA r : r.arrival_date = days[j]) \o Flatten(j + 1)
    IN  Flatten(1)

\* df[mask]: the rows whose mask is true, with their index labels, in the
\* order of df.
FilterData(d, s, e, h, st, c) ==
    SelectSeq(d, LAMBDA r : Mask(r, s, e, h, st, c))

---------------------------------------------------------------------------
(* KPI Section (app.py:51-52). *)

\* A float: NaN, or a number kept in hundredths.
NaN == [nan |-> TRUE, hundredths |-> 0]

Float(h) == [nan |-> FALSE, hundredths |-> h]

\* filtered_df.shape[0]
TotalBookings(v) == Len(v)

\* a / b to the nearest integer, a half to the even one, as round() does.
RoundDiv(a, b) ==
    LET q == a \div b
        r == a % b
    IN  IF 2 * r > b \/ (2 * r = b /\ q % 2 = 1) THEN q + 1 ELSE q

\* round((filtered_df['is_canceled'] == 'Canceled').mean() * 100, 2): the
\* mean of an empty Series is NaN, and NaN * 100 rounded is NaN.
CancellationRate(v) ==
    LET k == Cardinality({ i \in DOMAIN v : v[i].is_canceled = "Canceled" })
    IN  IF Len(v) = 0 THEN NaN ELSE Float(RoundDiv(k * 10000, Len(v)))

---------------------------------------------------------------------------
(* Time Series (app.py:60-61). *)

\* dt.to_period("M")
ToPeriodM(ts) == ts \div 100

\* dt.to_timestamp(): the first day of the month.
ToTimestamp(p) == p * 100 + 1

\* GroupSize as nunique(): the distinct arrival dates of one group.
GroupSizeDistinctDays(v, p) ==
    Cardinality({ v[i].arrival_date :
        i \in { j \in DOMAIN v : v[j].arrival_date \div 100 = p } })

\* groupby(period).size(): the rows of one group.
GroupSize(v, p) ==
    Cardinality({ i \in DOMAIN v : ToPeriodM(v[i].arrival_date) = p })

\* groupby(...).size().reset_index(name="Bookings"), then the period column
\* turned into timestamps: one row per month present in the view, ascending.
Monthly(v) ==
    LET keys == Ascending({ ToPeriodM(v[i].arrival_date) : i \in DOMAIN v })
    IN  [j \in DOMAIN keys |->
            [arrival_date |-> ToTimestamp(keys[j]), Bookings |-> GroupSize(v, keys[j])]]

---------------------------------------------------------------------------
(* Top 10 Countries by Cancellations (app.py:81). *)

\* CanceledCountries without the restriction to canceled bookings.
AllCountries(v) ==
    [i \in DOMAIN v |-> [is_canceled |-> v[i].is_canceled, country |-> v[i].country]]

\* filtered_df[filtered_df["is_canceled"] == "Canceled"]["country"]
CanceledCountries(v) ==
    SelectSeq([i \in DOMAIN v |-> [is_canceled |-> v[i].is_canceled, country |-> v[i].country]],
              LAMBDA r : r.is_canceled = "Canceled")

\* The counts value_counts() tallies, before it sorts them.
Tally(col) ==
    [k \in { col[i].country : i \in DOMAIN col } |->
        Cardinality({ i \in DOMAIN col : col[i].country = k })]

\* sort_values(ascending=False) with its default kind, quicksort, which is
\* not stable: every arrangement of the entries by descending count is an
\* outcome, whatever the order of the entries with equal counts was.
RECURSIVE SortValuesDescending(_)
SortValuesDescending(cnt) ==
    IF DOMAIN cnt = {} THEN { << >> }
    ELSE LET top == { k \in DOMAIN cnt : \A j \in DOMAIN cnt : cnt[k] >= cnt[j] }
         IN  UNION { { <<[country |-> k, count |-> cnt[k]]>> \o rest :
                         rest \in SortValuesDescending(
                                     [j \in DOMAIN cnt \ {k} |-> cnt[j]]) } :
                     k \in top }

\* value_counts(): the tally, sorted by descending count.
ValueCounts(col) == SortValuesDescending(Tally(col))

\* nlargest(n) of a series sorted by descending count: when n reaches its
\* length the series is sorted again with sort_values; otherwise the n
\* largest are kept, equal counts in the order of the series (keep="first").
NLargest(series, n) ==
    IF n >= Len(series)
    THEN SortValuesDescending(
             [k \in { series[i].country : i \in DOMAIN series } |->
                 series[CHOOSE i \in DOMAIN series : series[i].country = k].count])
    ELSE { SubSeq(series, 1, n) }

\* The outcomes of value_counts().nlargest(10) on the view.
TopCountries(v) ==
    UNION { NLargest(series, TopN) : series \in ValueCounts(CanceledCountries(v)) }

---------------------------------------------------------------------------
(* Data Preview & Download (app.py:118-119). *)

\* filtered_df.head(50)
Preview(v) == SubSeq(v, 1, IF Len(v) < PreviewRows THEN Len(v) ELSE PreviewRows)

\* A timestamp as to_csv writes it.
FormatDate(ts) == <<ts \div 10000, (ts \div 100) % 100, ts % 100>>

\* to_csv(index=False): every column but the index, row by row.
ToCsv(v) ==
    [i \in DOMAIN v |->
        [arrival_date       |-> FormatDate(v[i].arrival_date),
         hotel              |-> v[i].hotel,
         is_canceled        |-> v[i].is_canceled,
         customer_type      |-> v[i].customer_type,
         country            |-> v[i].country,
         reserved_room_type |-> v[i].reserved_room_type,
         assigned_room_type |-> v[i].assigned_room_type,
         room_mismatch      |-> v[i].room_mismatch]]

---------------------------------------------------------------------------
(* One run of the script. *)

\* What a run leaves behind: the table d it holds as df, the widget values
\* it read and everything it computed from the view v.  The order of equal
\* counts in top_countries is the sort's choice, made anew in every run.
Render(d, v, s, e, h, st, c) ==
    /\ df' = d
    /\ start_date' = s
    /\ end_date' = e
    /\ hotel_type' = h
    /\ status' = st
    /\ customer_type' = c
    /\ filtered_df' = v
    /\ total_bookings' = TotalBookings(v)
    /\ cancellation_rate' = CancellationRate(v)
    /\ monthly' = Monthly(v)
    /\ top_countries' \in TopCountries(v)
    /\ preview' = Preview(v)
    /\ csv' = ToCsv(v)
    /\ UNCHANGED cleaned_hotels

\* Rerun with the view assigned to df (df = df[mask]).
RerunInPlace(s, e, h, st, c) ==
    LET v == FilterData(LoadData(cleaned_hotels), s, e, h, st, c)
    IN  Render(v, v, s, e, h, st, c)

\* Rerun that cuts the view from the view of the run before.
RerunNarrowing(s, e, h, st, c) ==
    Render(LoadData(cleaned_hotels), FilterData(filtered_df, s, e, h, st, c),
           s, e, h, st, c)

\* The script, top to bottom, with the widgets at (s, e, h, st, c): the file
\* is read again, and the view is cut from the table just read.
Rerun(s, e, h, st, c) ==
    LET d == LoadData(cleaned_hotels)
    IN  Render(d, FilterData(d, s, e, h, st, c), s, e, h, st, c)

\* The first run: every widget at its default.
Init ==
    /\ cleaned_hotels \in Files
    /\ df = LoadData(cleaned_hotels)
    /\ start_date = MinDate(df)
    /\ end_date = MaxDate(df)
    /\ hotel_type = Unique(df, "hotel")
    /\ status = Unique(df, "is_canceled")
    /\ customer_type = Unique(df, "customer_type")
    /\ filtered_df = FilterData(df, start_date, end_date, hotel_type, status, customer_type)
    /\ total_bookings = TotalBookings(filtered_df)
    /\ cancellation_rate = CancellationRate(filtered_df)
    /\ monthly = Monthly(filtered_df)
    /\ top_countries \in TopCountries(filtered_df)
    /\ preview = Preview(filtered_df)
    /\ csv = ToCsv(filtered_df)

\* The user picks another arrival date range.
SetDateRange ==
    \E s \in PickableDates, e \in PickableDates :
        /\ <<s, e>> # <<start_date, end_date>>
        /\ Rerun(s, e, hotel_type, status, customer_type)

\* The user changes the hotel type selection.
SetHotelType ==
    \E h \in SUBSET Unique(df, "hotel") :
        /\ h # hotel_type
        /\ Rerun(start_date, end_date, h, status, customer_type)

\* The user changes the booking status selection.
SetStatus ==
    \E st \in SUBSET Unique(df, "is_canceled") :
        /\ st # status
        /\ Rerun(start_date, end_date, hotel_type, st, customer_type)

\* The user changes the customer type selection.
SetCustomerType ==
    \E c \in SUBSET Unique(df, "customer_type") :
        /\ c # customer_type
        /\ Rerun(start_date, end_date, hotel_type, status, c)

\* The user clicks the download button: the script runs again with the
\* widgets as they are.
Download ==
    Rerun(start_date, end_date, hotel_type, status, customer_type)

Next ==
    \/ SetDateRange
    \/ SetHotelType
    \/ SetStatus
    \/ SetCustomerType
    \/ Download

Spec == Init /\ [][Next]_vars

---------------------------------------------------------------------------
(* Properties. *)

\* The four predicates of the filter, as the specification words them.
InDateRange(r) == start_date <= r.arrival_date /\ r.arrival_date <= end_date

Selected(r) ==
    /\ r.hotel \in hotel_type
    /\ r.is_canceled \in status
    /\ r.customer_type \in customer_type

InView(r) == \E j \in DOMAIN filtered_df : filtered_df[j] = r

\* C1: the filtered view holds exactly the records of the dataset whose
\* arrival date lies in [start, end], both ends included, and whose hotel,
\* status and customer type are selected: every row of the view is such a
\* record of the dataset, no such record is missing, none occurs twice.
FilterIsExact ==
    /\ \A j \in DOMAIN filtered_df :
          \E i \in DOMAIN df :
              df[i] = filtered_df[j] /\ InDateRange(df[i]) /\ Selected(df[i])
    /\ \A i \in DOMAIN df : InDateRange(df[i]) /\ Selected(df[i]) => InView(df[i])
    /\ \A j, k \in DOMAIN filtered_df : filtered_df[j] = filtered_df[k] => j = k

\* A view that keeps a record arriving on the start date and one arriving on
\* the end date, and leaves a record of the dataset out.
FilterIsExactWitness ==
    /\ start_date < end_date
    /\ \E j \in DOMAIN filtered_df : filtered_df[j].arrival_date = start_date
    /\ \E j \in DOMAIN filtered_df : filtered_df[j].arrival_date = end_date
    /\ \E i \in DOMAIN df : ~InView(df[i])

\* C2: for an empty view total bookings is 0 and the cancellation rate is
\* the number 0, not NaN.
EmptyViewRateIsZero ==
    filtered_df = << >> =>
        total_bookings = 0 /\ cancellation_rate = Float(0)

\* C3: a start date later than the end date gives the empty view, whatever
\* the dataset and the other three filters are.
StartAfterEndGivesEmptyView ==
    start_date > end_date => filtered_df = << >>

\* The dates are reversed, and a record lies between them with its hotel,
\* status and customer type selected: swapped bounds would have kept it.
StartAfterEndWitness ==
    /\ start_date > end_date
    /\ filtered_df = << >>
    /\ \E i \in DOMAIN df :
          /\ end_date <= df[i].arrival_date
          /\ df[i].arrival_date <= start_date
          /\ Selected(df[i])

\* C4: an empty hotel, status or customer type selection gives the empty
\* view, whatever the dataset and the other filters are.
EmptySelectionGivesEmptyView ==
    hotel_type = {} \/ status = {} \/ customer_type = {} =>
        filtered_df = << >>

\* Nothing is selected in one filter while a record passes the date range
\* and the two other filters.
EmptySelectionWitness ==
    /\ status = {}
    /\ hotel_type # {}
    /\ customer_type # {}
    /\ filtered_df = << >>
    /\ \E i \in DOMAIN df :
          /\ InDateRange(df[i])
          /\ df[i].hotel \in hotel_type
          /\ df[i].customer_type \in customer_type

RECURSIVE SumBookings(_)
SumBookings(series) ==
    IF series = << >> THEN 0
    ELSE Head(series).Bookings + SumBookings(Tail(series))

SameMonth(a, b) == a \div 100 = b \div 100

\* C5: the counts of the monthly series add up to total bookings, which is
\* the number of records of the view, and every record of the view falls in
\* exactly one month bucket.
MonthlySumsToTotal ==
    /\ total_bookings = Len(filtered_df)
    /\ SumBookings(monthly) = total_bookings
    /\ \A i \in DOMAIN filtered_df :
          Cardinality({ j \in DOMAIN monthly :
              SameMonth(monthly[j].arrival_date, filtered_df[i].arrival_date) }) = 1

\* Two months in the series, one of them holding two records that arrive on
\* the same day.
MonthlySumsToTotalWitness ==
    /\ Len(monthly) >= 2
    /\ \E i, k \in DOMAIN filtered_df :
          i # k /\ filtered_df[i].arrival_date = filtered_df[k].arrival_date

\* The canceled records of the view from country k.
Cancellations(k) ==
    Cardinality({ i \in DOMAIN filtered_df :
        filtered_df[i].is_canceled = "Canceled" /\ filtered_df[i].country = k })

CanceledCountrySet ==
    { filtered_df[i].country :
        i \in { j \in DOMAIN filtered_df : filtered_df[j].is_canceled = "Canceled" } }

\* The place in the view of the first canceled record from country k.
FirstCanceled(k) ==
    CHOOSE i \in DOMAIN filtered_df :
        /\ filtered_df[i].is_canceled = "Canceled" /\ filtered_df[i].country = k
        /\ \A j \in 1..(i - 1) :
              ~(filtered_df[j].is_canceled = "Canceled" /\ filtered_df[j].country = k)

DatasetNeverChanges == [][df' = df]_vars

\* A run has filtered records out of the view, and the dataset is still the
\* loaded file with its derived room_mismatch.
DatasetNeverChangesWitness ==
    /\ Len(filtered_df) < Len(df)
    /\ filtered_df # << >>
    /\ df = LoadData(cleaned_hotels)
    /\ \E i \in DOMAIN df : df[i].room_mismatch

\* C8: the view is the filter applied to the dataset and the current
\* specification, whatever specifications came before.
ViewDependsOnCurrentSpecOnly ==
    filtered_df =
        FilterData(df, start_date, end_date, hotel_type, status, customer_type)

\* Two filters have been narrowed, in two runs, and a third run widened the
\* date range back to the whole dataset: records are in the view again.
ViewDependsOnCurrentSpecOnlyWitness ==
    /\ hotel_type # {} /\ hotel_type # Unique(df, "hotel")
    /\ customer_type # {} /\ customer_type # Unique(df, "customer_type")
    /\ filtered_df # << >>
    /\ \E i \in DOMAIN df : ~InView(df[i])

\* The place in the dataset of row j of the view.
PlaceInDataset(j) == CHOOSE a \in DOMAIN df : df[a] = filtered_df[j]

\* C9: two records of the view stand in the view in the order they have in
\* the dataset: every row of the view is a record of the dataset, and each
\* stands in the dataset before the row that follows it in the view.
OrderPreserved ==
    /\ \A j \in DOMAIN filtered_df : \E a \in DOMAIN df : df[a] = filtered_df[j]
    /\ \A j \in 1..(Len(filtered_df) - 1) : PlaceInDataset(j) < PlaceInDataset(j + 1)

\* A view that left a record out and holds a later arrival before an earlier
\* one: sorted by date it would be another sequence.
OrderPreservedWitness ==
    /\ \E i \in DOMAIN df : ~InView(df[i])
    /\ \E j, k \in DOMAIN filtered_df :
          j < k /\ filtered_df[j].arrival_date > filtered_df[k].arrival_date

\* The filter specification is the one built at load time.
IsDefaultSpec ==
    /\ \A i \in DOMAIN df : start_date <= df[i].arrival_date
    /\ \E i \in DOMAIN df : start_date = df[i].arrival_date
    /\ \A i \in DOMAIN df : df[i].arrival_date <= end_date
    /\ \E i \in DOMAIN df : end_date = df[i].arrival_date
    /\ hotel_type = { df[i].hotel : i \in DOMAIN df }
    /\ status = { df[i].is_canceled : i \in DOMAIN df }
    /\ customer_type = { df[i].customer_type : i \in DOMAIN df }

\* C10: under the default filter specification the view is the whole
\* dataset, record for record and in order, and total bookings is its size.
DefaultSpecShowsEverything ==
    IsDefaultSpec => filtered_df = df /\ total_bookings = Len(df)

\* The default specification on a dataset with two arrival dates, two hotels,
\* two statuses and two customer types.
DefaultSpecWitness ==
    /\ IsDefaultSpec
    /\ start_date < end_date
    /\ Cardinality(hotel_type) = 2
    /\ Cardinality(status) = 2
    /\ Cardinality(customer_type) = 2
    /\ filtered_df = df

====
